---- MODULE Spec2Model ----
(***************************************************************************)
(* Serial-device / websocket bridge ("python websocket_bridge.py").        *)
(*                                                                         *)
(* One asyncio event loop runs the port scanner (com_port_scanner), one    *)
(* reader task per bound port (read_from_serial) and one handler per       *)
(* websocket client (register_client).  Tasks are cooperative: a task      *)
(* runs from one await that really suspends to the next one.  The awaits   *)
(* that suspend are asyncio.sleep and broadcast() with a non-empty         *)
(* connected_clients; broadcast() with no client returns at once.          *)
(***************************************************************************)
EXTENDS Bags, FiniteSets, Integers, Sequences, TLC

(***************************** configuration *******************************)

MAX_PLAYERS == 4

\* Relay tasks that may be suspended in their final "disconnected"
\* broadcast at the same time (a scheduling bound, see CanLinger).
MaxLinger == 1

\* The messages a client sends on one connection are at most MaxPosted.
MaxPosted == 2

\* Ports whose binding exists when the observation starts and whose device
\* stays plugged in and silent.
StablePorts == {"COM1", "COM2", "COM3"}

\* Ports whose device is plugged, unplugged and read from.
ActivePorts == {"COM7", "COM8"}

\* A port that the enumeration lists all the time but that does not qualify.
OtherPorts == {"COM9"}

Ports == StablePorts \cup ActivePorts \cup OtherPorts

Clients == {"ws1"}

\* The websocket connections that exist when message order is observed.
Connections == Clients \cup {"ws2"}

Slots == 1..MAX_PLAYERS

\* Identities of the serial.Serial objects: the objects opened on one port
\* and still referred to are told apart by a number.
Handles == Ports \X {0, 1}

NoHandle == <<"", 0>>

\* The description the enumeration reports for a port, as its pieces.
Description(port) ==
    IF port \in OtherPorts THEN <<"USB-", "SERIAL", " CH340">>
    ELSE <<"USB ", "Serial", " Device">>

\* "Serial" in (p.description or "")
Qualifies(port) ==
    \E i \in 1..Len(Description(port)) : Description(port)[i] = "Serial"

\* Lines a device sends, as characters.
Lines == {<<"H", "I">>, <<" ">>}

IsSpace(ch) == ch \in {" ", "\t", "\r", "\n"}

RECURSIVE LStrip(_)
LStrip(s) == IF s # <<>> /\ IsSpace(Head(s)) THEN LStrip(Tail(s)) ELSE s

RECURSIVE RStrip(_)
RStrip(s) ==
    IF s # <<>> /\ IsSpace(s[Len(s)]) THEN RStrip(SubSeq(s, 1, Len(s) - 1)) ELSE s

\* Variant: str.rstrip()
Strip_right(s) == RStrip(s)

\* str.strip()
Strip(s) == RStrip(LStrip(s))

(******************************** state ************************************)

VARIABLES
    available,             \* ports listed by comports() right now
    connected_clients,     \* the global set connected_clients
    players,               \* the global dict players: port -> player_info
    assigned_player_nums,  \* the global set assigned_player_nums
    is_open,               \* is_open of every serial.Serial object
    close_calls,           \* the close() calls made on every serial.Serial object
    relays,                \* the read_from_serial tasks (a bag of frames)
    scanner,               \* the com_port_scanner task's frame
    sent,                  \* the envelope given to broadcast() last
    routed,                \* the message handled last and its write() calls
    inbox,                 \* per client: the messages of its connection not handled yet
    written,               \* per device and client: the message written to it last
    closed,                \* the clients whose connection has closed, not removed yet
    announced              \* the bindings the envelopes given to broadcast() announce

vars == <<available, connected_clients, players, assigned_player_nums,
          is_open, close_calls, relays, scanner, sent, routed,
          inbox, written, closed, announced>>

\* The state of the client connections that the registry does not hold.
link == <<inbox, written, closed>>

\* The dict players is the sequence of its items in insertion order, which
\* is the order a python dict is iterated in.
\* One item: port -> {'player_num': n, 'serial_conn': ser}
Item(port, n, ser) == [port |-> port, player_num |-> n, serial_conn |-> ser]

\* The keys of the dict d.
KeySet(d) == {d[i].port : i \in DOMAIN d}

\* d[k], for a key k of d
Get(d, k) == d[CHOOSE i \in DOMAIN d : d[i].port = k]

\* del d[k]
DictDel(d, k) == SelectSeq(d, LAMBDA it : it.port # k)

\* d[k] = {'player_num': n, 'serial_conn': ser}: a new key goes last, a key
\* of d keeps its place.
DictSet(d, k, n, ser) ==
    IF k \in KeySet(d)
    THEN [i \in DOMAIN d |-> IF d[i].port = k THEN Item(k, n, ser) ELSE d[i]]
    ELSE Append(d, Item(k, n, ser))

\* The frame of one read_from_serial task.  ser and player_num are its
\* locals, set when the task first runs.
Relay(port, ser, player_num, pc) ==
    [port |-> port, ser |-> ser, player_num |-> player_num, pc |-> pc]

RelaySet == BagToSet(relays)

Spawn(bag, r) == bag (+) SetToBag({r})

Retire(bag, r) == bag (-) SetToBag({r})

\* Serial objects something still refers to.
Referenced(pl, rel) ==
    {pl[i].serial_conn : i \in DOMAIN pl} \cup {r.ser : r \in BagToSet(rel)}

\* The identity given to the serial.Serial object opened next on port.
FreshHandle(pl, rel, port) ==
    CHOOSE h \in Handles \ Referenced(pl, rel) :
        /\ h[1] = port
        /\ \A g \in Handles \ Referenced(pl, rel) : g[1] = port => h[2] <= g[2]

\* A Serial object nothing refers to any more is finalised, which closes it
\* (io.IOBase.__del__).
Finalise(open, pl, rel) ==
    [h \in Handles |-> open[h] /\ h \in Referenced(pl, rel)]

\* The calls made on a Serial object go with the object.
Forget(calls, pl, rel) ==
    [h \in Handles |-> IF h \in Referenced(pl, rel) THEN calls[h] ELSE "none"]

(******************************* envelopes *********************************)

NoPort == ""

NoData == <<>>

\* json.dumps({"status": status, "player": player_num, "port": port})
StatusEnvelope(status, player_num, port) ==
    [status |-> status, player |-> player_num, port |-> port, data |-> NoData]

\* json.dumps({"player": player_num, "data": line})
DataEnvelope(player_num, line) ==
    [status |-> "data", player |-> player_num, port |-> NoPort, data |-> line]

\* No envelope has been sent yet.
NoEnvelope == [msg |-> [status |-> "", player |-> 0, port |-> NoPort, data |-> NoData],
               to |-> {}]

\* Variant: the sends are awaited one after the other and the first that
\* raises, taken to be the first tried, ends the broadcast.
broadcast_serial(last, clients, message) ==
    IF clients = {} THEN last
    ELSE [msg |-> message, to |-> IF clients \cap closed = {} THEN clients ELSE {}]

\* broadcast(message): with no client nothing is sent; otherwise one send
\* per member of connected_clients is handed to asyncio.wait, which keeps
\* the exception of a send that raises in its task.  The result is the
\* envelope sent last and the clients a send was started for.
broadcast(last, clients, message) ==
    IF clients = {} THEN last ELSE [msg |-> message, to |-> clients]

\* What the envelopes given to broadcast() so far announce, whoever
\* listens: live are the <<player, port>> whose "connected" envelope no
\* "disconnected" one has followed, odd the players an envelope was given
\* for out of turn: a "connected" one while the player is live, a "data" or
\* "disconnected" one while the binding, on port, is not.
Announce(log, message, port) ==
    LET key == <<message.player, port>>
        in_turn == IF message.status = "connected"
                   THEN \A k \in log.live : k[1] # message.player
                   ELSE key \in log.live
    IN  [live |-> IF message.status = "connected" THEN log.live \cup {key}
                  ELSE IF message.status = "disconnected" THEN log.live \ {key}
                  ELSE log.live,
         odd |-> IF in_turn THEN log.odd ELSE log.odd \cup {message.player}]

\* await broadcast(...) suspends the caller exactly when a send was started.
Suspends(clients) == clients # {}

(******************************* registry **********************************)

None == 0

\* Variant: range(1, MAX_PLAYERS + 2).
get_available_player_num_wide(assigned) ==
    IF \E i \in 1..(MAX_PLAYERS + 1) : i \notin assigned
    THEN CHOOSE i \in 1..(MAX_PLAYERS + 1) :
            /\ i \notin assigned
            /\ \A j \in 1..(i - 1) : j \in assigned
    ELSE 0

\* Variant: the range is scanned downwards.
get_available_player_num_down(assigned) ==
    IF \E i \in 1..MAX_PLAYERS : i \notin assigned
    THEN CHOOSE i \in 1..MAX_PLAYERS :
            /\ i \notin assigned
            /\ \A j \in (i + 1)..MAX_PLAYERS : j \in assigned
    ELSE 0

\* get_available_player_num(): python's range(1, MAX_PLAYERS + 1) is scanned
\* upwards and the first number not in assigned_player_nums is returned.
get_available_player_num(assigned) ==
    IF \E i \in 1..MAX_PLAYERS : i \notin assigned
    THEN CHOOSE i \in 1..MAX_PLAYERS :
            /\ i \notin assigned
            /\ \A j \in 1..(i - 1) : j \in assigned
    ELSE None

(******************************** scanner **********************************)

\* The frame of the com_port_scanner task: where it is suspended and its
\* locals esp_ports, the ports the for loop has still to visit, and port.
Scanner(pc, esp_ports, todo, port) ==
    [pc |-> pc, esp_ports |-> esp_ports, todo |-> todo, port |-> port]

\* The globals a scan cycle works on.
Globals(pl, assigned, open, calls, rel, log, ann) ==
    [players |-> pl, assigned_player_nums |-> assigned, is_open |-> open,
     close_calls |-> calls, relays |-> rel, sent |-> log, announced |-> ann]

\* esp_ports = {p.device for p in available_ports if "Serial" in ...}
esp_ports_of(listed) == {p \in listed : Qualifies(p)}

\* asyncio.create_task(read_from_serial(port))
create_task(bag, port) == Spawn(bag, Relay(port, NoHandle, 0, "start"))

\* Variant: the number is added to the set after the broadcast, so the
\* task is suspended with the binding made and the number not marked.
Bind_unmarked(g, port, player_num, ser) ==
    Globals(DictSet(g.players, port, player_num, ser),
            g.assigned_player_nums,
            [g.is_open EXCEPT ![ser] = TRUE],
            g.close_calls,
            g.relays,
            broadcast(g.sent, connected_clients,
                      StatusEnvelope("connected", player_num, port)),
            Announce(g.announced, StatusEnvelope("connected", player_num, port), port))

\* Lines 145-149: serial.Serial(...) has returned ser; the binding is made
\* and the "connected" envelope is given to broadcast().
Bind(g, port, player_num, ser) ==
    Globals(DictSet(g.players, port, player_num, ser),
            g.assigned_player_nums \cup {player_num},
            [g.is_open EXCEPT ![ser] = TRUE],
            g.close_calls,
            g.relays,
            broadcast(g.sent, connected_clients,
                      StatusEnvelope("connected", player_num, port)),
            Announce(g.announced, StatusEnvelope("connected", player_num, port), port))

\* Variant: no task is created.
Started_skip(g, port) == g

\* Line 150
Started(g, port) == [g EXCEPT !.relays = create_task(g.relays, port)]

\* Lines 157-158
disconnected_ports(pl, esp_ports) == KeySet(pl) \ esp_ports

\* Lines 159-163: player_info['serial_conn'].close() for every port of gone.
CloseAll(open, pl, gone) ==
    [h \in Handles |-> open[h] /\ ~(\E p \in gone : Get(pl, p).serial_conn = h)]

\* Lines 159-163 again: what they add to the close() calls made so far on
\* every Serial object, which are none, one or more than one.  There is no
\* test of is_open before the call.
CloseCalls(calls, pl, gone) ==
    [h \in Handles |->
        IF \E p \in gone : Get(pl, p).serial_conn = h
        THEN IF calls[h] = "none" THEN "one" ELSE "more"
        ELSE calls[h]]

\* Variant: the scanner also removes the bindings of the ports it closes
\* and frees their numbers.
EndCycle_unbind(g, esp_ports) ==
    LET gone == disconnected_ports(g.players, esp_ports)
    IN  [globals |->
            [g EXCEPT !.is_open = CloseAll(g.is_open, g.players, gone),
                      !.close_calls = CloseCalls(g.close_calls, g.players, gone),
                      !.players = SelectSeq(g.players, LAMBDA it : it.port \notin gone),
                      !.assigned_player_nums =
                          @ \ {Get(g.players, p).player_num : p \in gone}],
         scanner |-> Scanner("sleep", {}, {}, NoPort)]

\* Lines 156-166: the handles of the bound ports that are not in esp_ports
\* are closed and the task sleeps.
EndCycle(g, esp_ports) ==
    [globals |-> [g EXCEPT !.is_open =
                     CloseAll(g.is_open, g.players,
                              disconnected_ports(g.players, esp_ports)),
                           !.close_calls =
                     CloseCalls(g.close_calls, g.players,
                                disconnected_ports(g.players, esp_ports))],
     scanner |-> Scanner("sleep", {}, {}, NoPort)]

\* Variant: the binding is made although serial.Serial(...) raised.
Opened_all(unbound, busy) == unbound

\* Lines 144-152: the ports among unbound on which serial.Serial(...)
\* returns; on those of busy it raises SerialException, which line 151
\* catches, and the loop goes on to its next port.
Opened(unbound, busy) == unbound \ busy

\* Lines 140-166: "for port in esp_ports" from the ports of todo on (a set:
\* any order), up to the next await that suspends the task.  busy are the
\* ports on which serial.Serial(...) raises SerialException.  A port that
\* is bound or busy changes nothing, and no port does once no number is
\* free; skipped are such ports visited before the port that is bound.  The
\* result is every state the task can be suspended in next.
RECURSIVE ConnectLoop(_, _, _, _)
ConnectLoop(g, esp_ports, todo, busy) ==
    LET player_num == get_available_player_num(g.assigned_player_nums)
        unbound == {p \in todo : p \notin KeySet(g.players)}
        openable == Opened(unbound, busy)
        Bound(port, skipped) ==
            LET rest == todo \ (skipped \cup {port})
                b == Bind(g, port, player_num, FreshHandle(g.players, g.relays, port))
            IN  IF Suspends(connected_clients)
                THEN {[globals |-> b,
                       scanner |-> Scanner("connected", esp_ports, rest, port)]}
                ELSE ConnectLoop(Started(b, port), esp_ports, rest, busy)
    IN  IF player_num = None \/ openable = {}
        THEN {EndCycle(g, esp_ports)}
        ELSE UNION {Bound(x[1], x[2]) : x \in openable \X SUBSET (todo \ openable)}

ScannerRuns(out) ==
    /\ players' = out.globals.players
    /\ assigned_player_nums' = out.globals.assigned_player_nums
    /\ is_open' = out.globals.is_open
    /\ close_calls' = out.globals.close_calls
    /\ relays' = out.globals.relays
    /\ sent' = out.globals.sent
    /\ announced' = out.globals.announced
    /\ scanner' = out.scanner
    /\ UNCHANGED <<available, connected_clients, routed, link>>

Now == Globals(players, assigned_player_nums, is_open, close_calls, relays, sent,
               announced)

\* Lines 124-166: the sleep of 2 s is over; the ports are enumerated and
\* filtered and the cycle runs up to its next await.
ScanCycle(busy) ==
    /\ scanner.pc = "sleep"
    /\ \E out \in ConnectLoop(Now, esp_ports_of(available),
                              esp_ports_of(available), busy) :
          ScannerRuns(out)

\* Line 125: comports() raises; nothing catches it and the task ends.
ScanEnumerateFails ==
    /\ scanner.pc = "sleep"
    /\ scanner' = Scanner("crashed", {}, {}, NoPort)
    /\ UNCHANGED <<available, connected_clients, players,
                   assigned_player_nums, is_open, close_calls, relays, sent,
                   routed, link, announced>>

\* Lines 149-166: the "connected" broadcast has completed; the relay task
\* is created and the cycle goes on up to its next await.
ScanConnectedSent(busy) ==
    /\ scanner.pc = "connected"
    /\ \E out \in ConnectLoop(Started(Now, scanner.port), scanner.esp_ports,
                              scanner.todo, busy) :
          ScannerRuns(out)

(********************************* relay ***********************************)

\* What one poll of the device yields: nothing waiting, a line, or an
\* exception out of in_waiting / readline() / decode().
Idle == [kind |-> "idle", line |-> <<>>]

Failure == [kind |-> "error", line |-> <<>>]

LineRead(l) == [kind |-> "line", line |-> l]

Inputs == {Idle, Failure} \cup {LineRead(l) : l \in Lines}

\* A silent device yields nothing; an unplugged one yields no line.
InputsFor(port) ==
    IF port \in StablePorts THEN {Idle}
    ELSE IF port \in available THEN Inputs
    ELSE {Idle, Failure}

Lingering == {r \in RelaySet : r.pc = "disconnected"}

\* The relays suspended in their last broadcast, copies counted.
LingerCount == BagCardinality([r \in Lingering |-> relays[r]])

\* Scheduling bound: a relay runs its cleanup only when fewer than
\* MaxLinger others are still suspended in theirs.
CanLinger == LingerCount < MaxLinger

\* The frame of a task suspended at line 118: the envelope is built and
\* the task reads ser and player_num no more.
Leaving(r) == Relay(r.port, NoHandle, 0, "disconnected")

\* Variant: the binding is removed and the task ends without an envelope.
Cleanup_silent(old, r) ==
    /\ assigned_player_nums' =
          assigned_player_nums \ {Get(players, r.port).player_num}
    /\ players' = DictDel(players, r.port)
    /\ relays' = Retire(relays, old)
    /\ is_open' = Finalise(is_open, players', relays')
    /\ UNCHANGED <<sent, announced>>

\* Variant: no test "port_address in players"; the number the task holds
\* is discarded and the envelope is sent whatever the registry says.
Cleanup_unguarded(old, r) ==
    /\ Suspends(connected_clients) => CanLinger
    /\ assigned_player_nums' = assigned_player_nums \ {r.player_num}
    /\ players' = DictDel(players, r.port)
    /\ sent' = broadcast(sent, connected_clients,
                         StatusEnvelope("disconnected", r.player_num, r.port))
    /\ announced' = Announce(announced,
                         StatusEnvelope("disconnected", r.player_num, r.port), r.port)
    /\ relays' = IF Suspends(connected_clients)
                 THEN Spawn(Retire(relays, old), Leaving(r))
                 ELSE Retire(relays, old)
    /\ is_open' = Finalise(is_open, players', relays')

\* Variant: the task ends at line 114.
Cleanup_keep(old, r) ==
    /\ relays' = Retire(relays, old)
    /\ is_open' = Finalise(is_open, players, relays')
    /\ UNCHANGED <<players, assigned_player_nums, sent, announced>>

\* Lines 113-118, for the task "old" whose locals are in r.  The remove()
\* of a number that is not in the set raises KeyError and ends the task.
Cleanup(old, r) ==
    IF r.port \in KeySet(players)
    THEN IF Get(players, r.port).player_num \in assigned_player_nums
         THEN /\ Suspends(connected_clients) => CanLinger
              /\ assigned_player_nums' =
                    assigned_player_nums \ {Get(players, r.port).player_num}
              /\ players' = DictDel(players, r.port)
              /\ sent' = broadcast(sent, connected_clients,
                            StatusEnvelope("disconnected", r.player_num, r.port))
              /\ announced' = Announce(announced,
                            StatusEnvelope("disconnected", r.player_num, r.port),
                            r.port)
              /\ relays' = IF Suspends(connected_clients)
                           THEN Spawn(Retire(relays, old), Leaving(r))
                           ELSE Retire(relays, old)
              /\ is_open' = Finalise(is_open, players', relays')
         ELSE /\ relays' = Retire(relays, old)
              /\ is_open' = Finalise(is_open, players, relays')
              /\ UNCHANGED <<players, assigned_player_nums, sent, announced>>
    ELSE /\ relays' = Retire(relays, old)
         /\ is_open' = Finalise(is_open, players, relays')
         /\ UNCHANGED <<players, assigned_player_nums, sent, announced>>

\* Lines 97-111: the loop from its test to the next await that suspends,
\* for the task "old" whose locals are in r, polling inp.
Poll(old, r, inp) ==
    IF ~is_open[r.ser] \/ inp.kind = "error"
    THEN Cleanup(old, r)
    ELSE IF inp.kind = "line" /\ Strip(inp.line) # <<>>
    THEN /\ sent' = broadcast(sent, connected_clients,
                              DataEnvelope(r.player_num, Strip(inp.line)))
         /\ announced' = Announce(announced,
                              DataEnvelope(r.player_num, Strip(inp.line)), r.port)
         /\ relays' = Spawn(Retire(relays, old),
                            [r EXCEPT !.pc = IF Suspends(connected_clients)
                                             THEN "data" ELSE "sleep"])
         /\ UNCHANGED <<players, assigned_player_nums, is_open>>
    ELSE /\ relays' = Spawn(Retire(relays, old), [r EXCEPT !.pc = "sleep"])
         /\ UNCHANGED <<players, assigned_player_nums, is_open, sent, announced>>

\* Lines 88-95 and the first pass of the loop: the task runs for the first
\* time and reads its binding.
RelayStart(r, inp) ==
    /\ r \in RelaySet
    /\ r.pc = "start"
    /\ IF r.port \notin KeySet(players)
       THEN /\ relays' = Retire(relays, r)
            /\ is_open' = Finalise(is_open, players, relays')
            /\ UNCHANGED <<players, assigned_player_nums, sent, announced>>
       ELSE Poll(r, Relay(r.port, Get(players, r.port).serial_conn,
                          Get(players, r.port).player_num, r.pc), inp)
    /\ close_calls' = Forget(close_calls, players', relays')
    /\ UNCHANGED <<available, connected_clients, scanner, routed, link>>

\* Line 105: the sleep of 0.01 s is over and the loop test runs again.
RelayWake(r, inp) ==
    /\ r \in RelaySet
    /\ r.pc = "sleep"
    /\ Poll(r, r, inp)
    /\ close_calls' = Forget(close_calls, players', relays')
    /\ UNCHANGED <<available, connected_clients, scanner, routed, link>>

\* Lines 104-105: the data broadcast has completed; the task sleeps.
RelayDataSent(r) ==
    /\ r \in RelaySet
    /\ r.pc = "data"
    /\ relays' = Spawn(Retire(relays, r), [r EXCEPT !.pc = "sleep"])
    /\ UNCHANGED <<available, connected_clients, players,
                   assigned_player_nums, is_open, close_calls, scanner, sent,
                   routed, link, announced>>

\* Line 118: the "disconnected" broadcast has completed; the task ends.
RelayDisconnectedSent(r) ==
    /\ r \in RelaySet
    /\ r.pc = "disconnected"
    /\ relays' = Retire(relays, r)
    /\ is_open' = Finalise(is_open, players, relays')
    /\ close_calls' = Forget(close_calls, players, relays')
    /\ UNCHANGED <<available, connected_clients, players,
                   assigned_player_nums, scanner, sent, routed, link, announced>>

(********************************* router **********************************)

\* The text of a client message, as its JSON tokens.
Str(text) == [k |-> "str", s |-> text, n |-> 0]

Num(value) == [k |-> "num", s |-> "", n |-> value]

Punct(ch) == [k |-> "punct", s |-> ch, n |-> 0]

Word(text) == [k |-> "word", s |-> text, n |-> 0]

Newline == Punct("\n")

Messages ==
    { <<Punct("{"), Str("player_id"), Punct(":"), Num(2), Punct(","),
        Str("x"), Punct(":"), Num(1), Punct("}")>>,
      <<Punct("{"), Str("player_id"), Punct(":"), Num(1), Punct("}")>>,
      <<Punct("{"), Str("player_id"), Punct(":"), Str("2"), Punct("}")>>,
      <<Punct("{"), Str("x"), Punct(":"), Num(1), Punct("}")>>,
      <<Punct("{"), Str("x"), Punct(":"), Num(1)>>,
      <<Word("hello")>>,
      <<Num(5)>>,
      <<Punct("["), Num(1), Punct("]")>> }

IsScalar(tok) == tok.k \in {"str", "num"}

\* The python value of a scalar token.
ValueOf(tok) == [t |-> IF tok.k = "num" THEN "int" ELSE "str", s |-> tok.s, n |-> tok.n]

NoItems == [key \in {} |-> ValueOf(Num(0))]

JSONDecodeError == [ok |-> FALSE, type |-> "", items |-> NoItems, elems |-> <<>>, value |-> ValueOf(Num(0))]

Parsed(type, items, elems, value) ==
    [ok |-> TRUE, type |-> type, items |-> items, elems |-> elems, value |-> value]

\* The members "key": value, ... of an object; a later key replaces an
\* earlier one.
RECURSIVE ParseMembers(_)
ParseMembers(toks) ==
    IF Len(toks) >= 3 /\ toks[1].k = "str" /\ toks[2] = Punct(":") /\ IsScalar(toks[3])
    THEN IF Len(toks) = 3
         THEN [ok |-> TRUE, items |-> (toks[1].s :> ValueOf(toks[3]))]
         ELSE IF Len(toks) >= 5 /\ toks[4] = Punct(",")
         THEN LET rest == ParseMembers(SubSeq(toks, 5, Len(toks)))
              IN  [ok |-> rest.ok,
                   items |-> rest.items @@ (toks[1].s :> ValueOf(toks[3]))]
         ELSE [ok |-> FALSE, items |-> NoItems]
    ELSE [ok |-> FALSE, items |-> NoItems]

\* The elements value, ... of an array.
RECURSIVE ParseElements(_)
ParseElements(toks) ==
    IF Len(toks) >= 1 /\ IsScalar(toks[1])
    THEN IF Len(toks) = 1
         THEN [ok |-> TRUE, elems |-> <<ValueOf(toks[1])>>]
         ELSE IF Len(toks) >= 3 /\ toks[2] = Punct(",")
         THEN LET rest == ParseElements(SubSeq(toks, 3, Len(toks)))
              IN  [ok |-> rest.ok, elems |-> <<ValueOf(toks[1])>> \o rest.elems]
         ELSE [ok |-> FALSE, elems |-> <<>>]
    ELSE [ok |-> FALSE, elems |-> <<>>]

\* Variant: text that is no JSON is taken for an empty object.
json_loads_lenient(message) ==
    IF Len(message) = 1 /\ IsScalar(message[1])
    THEN Parsed(ValueOf(message[1]).t, NoItems, <<>>, ValueOf(message[1]))
    ELSE IF Len(message) >= 3 /\ message[1] = Punct("{") /\ message[Len(message)] = Punct("}")
            /\ ParseMembers(SubSeq(message, 2, Len(message) - 1)).ok
    THEN Parsed("dict", ParseMembers(SubSeq(message, 2, Len(message) - 1)).items,
                <<>>, ValueOf(Num(0)))
    ELSE Parsed("dict", NoItems, <<>>, ValueOf(Num(0)))

\* json.loads(message): a scalar, an object or an array of scalars; anything
\* else raises JSONDecodeError.
json_loads(message) ==
    LET n == Len(message)
        inner == SubSeq(message, 2, n - 1)
    IN  IF n = 1 /\ IsScalar(message[1])
        THEN Parsed(ValueOf(message[1]).t, NoItems, <<>>, ValueOf(message[1]))
        ELSE IF n >= 2 /\ message[1] = Punct("{") /\ message[n] = Punct("}")
        THEN IF n = 2 THEN Parsed("dict", NoItems, <<>>, ValueOf(Num(0)))
             ELSE IF ParseMembers(inner).ok
             THEN Parsed("dict", ParseMembers(inner).items, <<>>, ValueOf(Num(0)))
             ELSE JSONDecodeError
        ELSE IF n >= 2 /\ message[1] = Punct("[") /\ message[n] = Punct("]")
        THEN IF n = 2 THEN Parsed("list", NoItems, <<>>, ValueOf(Num(0)))
             ELSE IF ParseElements(inner).ok
             THEN Parsed("list", NoItems, ParseElements(inner).elems, ValueOf(Num(0)))
             ELSE JSONDecodeError
        ELSE JSONDecodeError

\* "player_id" in data: a key of a dict, an element of a list, a substring
\* of a str; TypeError for a number.
HasPlayerId(data) ==
    CASE data.type = "dict" -> "player_id" \in DOMAIN data.items
      [] data.type = "list" ->
            \E i \in 1..Len(data.elems) :
                data.elems[i].t = "str" /\ data.elems[i].s = "player_id"
      [] data.type = "str" -> data.value.s = "player_id"
      [] OTHER -> FALSE

\* Variant: any number matches.
PyEq_any(player_num, value) == value.t = "int"

\* player_info['player_num'] == target_player_id
PyEq(player_num, value) == value.t = "int" /\ value.n = player_num

\* message.encode('utf-8') + b'\n'
Payload(message) == Append(message, Newline)

\* One call of ser.write(data) on the Serial object of port; ok is FALSE
\* when it raised.
WriteCall(port, data, ok) == [port |-> port, data |-> data, ok |-> ok]

\* Lines 35-46: the loop of the targeted branch over the items of the dict.
\* The first write that returns ends the loop; one that raises does not.
RECURSIVE TargetedLoop(_, _, _, _)
TargetedLoop(items, target, message, failing) ==
    IF items = <<>> THEN <<>>
    ELSE LET port == Head(items).port
             player_info == Head(items)
         IN  IF PyEq(player_info.player_num, target) /\ is_open[player_info.serial_conn]
             THEN IF port \in failing
                  THEN <<WriteCall(port, Payload(message), FALSE)>>
                          \o TargetedLoop(Tail(items), target, message, failing)
                  ELSE <<WriteCall(port, Payload(message), TRUE)>>
             ELSE TargetedLoop(Tail(items), target, message, failing)

\* Variant: the try statement is around the loop, so the first write that
\* raises ends it.
BroadcastLoop_abort(items, message, failing) ==
    LET opened == SelectSeq(items, LAMBDA it : is_open[it.serial_conn])
        bad == {i \in DOMAIN opened : opened[i].port \in failing}
        last == IF bad = {} THEN Len(opened)
                ELSE CHOOSE i \in bad : \A j \in bad : i <= j
    IN  [i \in 1..last |-> [port |-> opened[i].port, data |-> Append(message, Newline),
                             ok |-> opened[i].port \notin failing]]

\* Lines 53-60: the loop of the broadcast branch over the items of the dict.
RECURSIVE BroadcastLoop(_, _, _)
BroadcastLoop(items, message, failing) ==
    IF items = <<>> THEN <<>>
    ELSE LET port == Head(items).port
             player_info == Head(items)
         IN  IF is_open[player_info.serial_conn]
             THEN <<WriteCall(port, Payload(message), port \notin failing)>>
                     \o BroadcastLoop(Tail(items), message, failing)
             ELSE BroadcastLoop(Tail(items), message, failing)

Outcome(writes, raised) == [writes |-> writes, raised |-> raised]

\* handle_websocket_message(message): the write() calls it makes, in order,
\* and whether an exception leaves it.  JSONDecodeError is caught at line
\* 62; the TypeError of "in" on a number and the AttributeError of .get on
\* a list or str at line 64.  failing are the ports whose write() raises.
handle_websocket_message(message, failing) ==
    LET data == json_loads(message)
    IN  IF ~data.ok THEN Outcome(<<>>, FALSE)
        ELSE IF data.type = "int" THEN Outcome(<<>>, FALSE)
        ELSE IF HasPlayerId(data)
        THEN IF data.type # "dict" THEN Outcome(<<>>, FALSE)
             ELSE Outcome(TargetedLoop(players, data.items["player_id"],
                                       message, failing), FALSE)
        ELSE Outcome(BroadcastLoop(players, message, failing), FALSE)

NothingRouted == [client |-> "", message |-> <<>>, writes |-> <<>>, n |-> 0]

\* The ports on which write() can raise: those whose device is unplugged.
CanFail == KeySet(players) \ available

\* A connection on which nothing was received.
NoMessages == [posted |-> 0, queue |-> <<>>]

\* Variant: the message received last is yielded first.
Received_newest(queue) == Len(queue)

\* Line 73: the place in the queue of the message "async for" yields next,
\* which is the one received first.
Received(queue) == 1

\* The number, in the stream of its connection, of the message at place
\* pos of the queue.
NumberOf(box, pos) == box.posted - Len(box.queue) + pos

\* The queue without the message at place pos.
Without(queue, pos) ==
    SubSeq(queue, 1, pos - 1) \o SubSeq(queue, pos + 1, Len(queue))

\* Lines 41 and 57: the number k of the client's message is the last one
\* written on every device a write() of out returned on.
Wrote(log, c, k, out) ==
    [p \in Ports |->
        IF \E i \in DOMAIN out.writes : out.writes[i].port = p /\ out.writes[i].ok
        THEN [log[p] EXCEPT ![c] = k]
        ELSE log[p]]

\* The connection of client c has gone: nothing of it is kept.
Dropped(log, c) == [p \in Ports |-> [log[p] EXCEPT ![c] = 0]]

\* A message of client c arrives while register_client is busy or not
\* scheduled yet; the connection queues it behind those it holds.
ClientSends(c, message) ==
    /\ c \in connected_clients \ closed
    /\ inbox[c].posted < MaxPosted
    /\ inbox' = [inbox EXCEPT ![c] = [posted |-> @.posted + 1,
                                      queue |-> Append(@.queue, message)]]
    /\ UNCHANGED <<available, connected_clients, players, assigned_player_nums,
                   is_open, close_calls, relays, scanner, sent, routed,
                   written, closed, announced>>

\* Lines 73-74: "async for" yields the next queued message of client c and
\* handle_websocket_message, which has no await that suspends, handles it.
ClientHandles(c, failing) ==
    /\ c \in connected_clients
    /\ inbox[c].queue # <<>>
    /\ LET pos == Received(inbox[c].queue)
           message == inbox[c].queue[pos]
           out == handle_websocket_message(message, failing)
       IN  /\ routed' = [client |-> c, message |-> message,
                         writes |-> out.writes, n |-> 1 - routed.n]
           /\ written' = Wrote(written, c, NumberOf(inbox[c], pos), out)
           /\ inbox' = [inbox EXCEPT ![c].queue = Without(@, pos)]
    /\ UNCHANGED <<available, connected_clients, players, assigned_player_nums,
                   is_open, close_calls, relays, scanner, sent, closed,
                   announced>>

\* Lines 73-79: the client's next message arrives while register_client
\* waits for one with none queued, and is handled at once; it is not
\* numbered in the stream of the connection.  An exception out of the
\* handler ends register_client, whose finally clause removes the client.
ClientMessage(c, message, failing) ==
    /\ c \in connected_clients
    /\ inbox[c].queue = <<>>
    /\ LET out == handle_websocket_message(message, failing)
       IN  /\ routed' = [client |-> c, message |-> message,
                         writes |-> out.writes, n |-> 1 - routed.n]
           /\ connected_clients' =
                 IF out.raised THEN connected_clients \ {c} ELSE connected_clients
    /\ UNCHANGED <<available, players, assigned_player_nums,
                   is_open, close_calls, relays, scanner, sent, link,
                   announced>>

(***************************** environment *********************************)

\* A device is plugged in.
DeviceAppears(port) ==
    /\ port \notin available
    /\ available' = available \cup {port}
    /\ UNCHANGED <<connected_clients, players, assigned_player_nums,
                   is_open, close_calls, relays, scanner, sent, routed, link,
                   announced>>

\* A device is unplugged.
DeviceVanishes(port) ==
    /\ port \in available
    /\ available' = available \ {port}
    /\ UNCHANGED <<connected_clients, players, assigned_player_nums,
                   is_open, close_calls, relays, scanner, sent, routed, link,
                   announced>>

\* Lines 67-70: a client connects and register_client adds it.
ClientConnects(c) ==
    /\ c \notin connected_clients
    /\ connected_clients' = connected_clients \cup {c}
    /\ UNCHANGED <<available, players, assigned_player_nums,
                   is_open, close_calls, relays, scanner, sent, routed, link,
                   announced>>

\* The connection of client c closes: a send() on it raises from now on,
\* while register_client has not run yet and the client is still in the set.
ClientCloses(c) ==
    /\ c \in connected_clients \ closed
    /\ closed' = closed \cup {c}
    /\ UNCHANGED <<available, connected_clients, players, assigned_player_nums,
                   is_open, close_calls, relays, scanner, sent, routed,
                   inbox, written, announced>>

\* Lines 73-79: the client's message stream ends and it is removed.
ClientDisconnects(c) ==
    /\ c \in connected_clients
    /\ connected_clients' = connected_clients \ {c}
    /\ closed' = closed \ {c}
    /\ inbox' = [inbox EXCEPT ![c] = NoMessages]
    /\ written' = Dropped(written, c)
    /\ UNCHANGED <<available, players, assigned_player_nums,
                   is_open, close_calls, relays, scanner, sent, routed,
                   announced>>

(**************************** specifications *******************************)

BootHandle(port) == <<port, 0>>

\* The dict players when the observation starts: no binding, or bindings of
\* stable ports made earlier.
BootConfigs ==
    { <<>>,
      <<Item("COM1", 1, BootHandle("COM1")), Item("COM2", 3, BootHandle("COM2"))>>,
      <<Item("COM1", 1, BootHandle("COM1")), Item("COM2", 2, BootHandle("COM2")),
        Item("COM3", 4, BootHandle("COM3"))>> }

\* What the "connected" envelopes of the bindings of boot announced.
Announced(boot) ==
    [live |-> {<<boot[i].player_num, boot[i].port>> : i \in DOMAIN boot}, odd |-> {}]

\* The state with the bindings of boot, their relays polling, once the
\* devices listed in plugged are there too.
InitWith(boot, plugged, clients) ==
    /\ available = KeySet(boot) \cup plugged \cup OtherPorts
    /\ connected_clients = clients
    /\ players = boot
    /\ assigned_player_nums = {boot[i].player_num : i \in DOMAIN boot}
    /\ is_open = [h \in Handles |-> \E i \in DOMAIN boot : boot[i].serial_conn = h]
    /\ close_calls = [h \in Handles |-> "none"]
    /\ relays = SetToBag({Relay(boot[i].port, boot[i].serial_conn,
                                boot[i].player_num, "sleep") : i \in DOMAIN boot})
    /\ scanner = Scanner("sleep", {}, {}, NoPort)
    /\ sent = NoEnvelope
    /\ routed = NothingRouted
    /\ inbox = [c \in Connections |-> NoMessages]
    /\ written = [p \in Ports |-> [c \in Connections |-> 0]]
    /\ closed = {}
    /\ announced = Announced(boot)

Init == \E boot \in BootConfigs : InitWith(boot, {}, {})

ScannerNext ==
    \/ \E busy \in SUBSET ActivePorts : ScanCycle(busy)
    \/ ScanEnumerateFails
    \/ \E busy \in SUBSET ActivePorts : ScanConnectedSent(busy)

RelayNext ==
    \/ \E r \in RelaySet : \E inp \in InputsFor(r.port) : RelayStart(r, inp)
    \/ \E r \in RelaySet : \E inp \in InputsFor(r.port) : RelayWake(r, inp)
    \/ \E r \in RelaySet : RelayDataSent(r)
    \/ \E r \in RelaySet : RelayDisconnectedSent(r)

DeviceNext ==
    \/ \E port \in ActivePorts : DeviceAppears(port)
    \/ \E port \in ActivePorts : DeviceVanishes(port)

ClientNext ==
    \/ \E c \in Clients : ClientConnects(c)
    \/ \E c \in Clients : ClientDisconnects(c)

Next == ScannerNext \/ RelayNext \/ DeviceNext \/ ClientNext

Spec == Init /\ [][Next]_vars

\* The device the router is observed with.
RouterPorts == {"COM7"}

\* The router is observed from a state with three bindings and a client;
\* the device bound first is the one that is unplugged and plugged again.
RouterInit ==
    InitWith(<<Item("COM7", 2, BootHandle("COM7")), Item("COM1", 1, BootHandle("COM1")),
               Item("COM2", 3, BootHandle("COM2"))>>, {}, Clients)

RouterRelayNext ==
    \/ \E r \in RelaySet : \E inp \in InputsFor(r.port) \ {LineRead(l) : l \in Lines} :
          RelayStart(r, inp)
    \/ \E r \in RelaySet : \E inp \in InputsFor(r.port) \ {LineRead(l) : l \in Lines} :
          RelayWake(r, inp)
    \/ \E r \in RelaySet : RelayDisconnectedSent(r)

RouterScannerNext ==
    \/ \E busy \in SUBSET RouterPorts : ScanCycle(busy)
    \/ \E busy \in SUBSET RouterPorts : ScanConnectedSent(busy)

MessageNext ==
    \E c \in Clients, message \in Messages, failing \in SUBSET CanFail :
        ClientMessage(c, message, failing)

RouterDeviceNext ==
    \/ \E port \in RouterPorts : DeviceAppears(port)
    \/ \E port \in RouterPorts : DeviceVanishes(port)

RouterNext ==
    \/ RouterScannerNext
    \/ RouterRelayNext
    \/ RouterDeviceNext
    \/ ClientNext
    \/ MessageNext

RouterSpec == RouterInit /\ [][RouterNext]_vars

\* The bridge started with an empty registry, observed with devices whose
\* opening succeeds, under the scheduling of the event loop: a timer that is
\* due fires and a broadcast whose sends are over returns, so a task that
\* can run does run.
LiveInit == InitWith(<<>>, {}, {})

LiveScannerNext ==
    \/ ScanCycle({})
    \/ ScanEnumerateFails
    \/ ScanConnectedSent({})

LiveNext == LiveScannerNext \/ RelayNext \/ DeviceNext \/ ClientNext

\* The steps the relay tasks of one port take when they are scheduled and
\* the device has nothing to say: fairness schedules the task, it does not
\* make the device send a line or fail.
RelayOf(port) ==
    \/ \E r \in RelaySet : r.port = port /\ RelayStart(r, Idle)
    \/ \E r \in RelaySet : r.port = port /\ RelayWake(r, Idle)
    \/ \E r \in RelaySet : r.port = port /\ RelayDataSent(r)

LiveSpec ==
    /\ LiveInit
    /\ [][LiveNext]_vars
    /\ WF_vars(ScanCycle({}))
    /\ WF_vars(ScanConnectedSent({}))
    /\ \A port \in ActivePorts : SF_vars(RelayOf(port))
    /\ WF_vars(\E r \in RelaySet : RelayDisconnectedSent(r))

\* LiveSpec with an enumeration that never raises.
NoFailSpec ==
    /\ LiveInit
    /\ [][(LiveNext /\ scanner'.pc # "crashed")]_vars
    /\ WF_vars(ScanCycle({}))
    /\ WF_vars(ScanConnectedSent({}))
    /\ \A port \in ActivePorts : SF_vars(RelayOf(port))
    /\ WF_vars(\E r \in RelaySet : RelayDisconnectedSent(r))

\* Every slot is held: three stable devices hold slots 1, 2 and 4 and COM7
\* holds slot 3, the only slot that is ever freed, while COM8 is plugged in
\* and not bound.
FullInit ==
    InitWith(<<Item("COM1", 1, BootHandle("COM1")), Item("COM2", 2, BootHandle("COM2")),
               Item("COM3", 4, BootHandle("COM3")), Item("COM7", 3, BootHandle("COM7"))>>,
             {"COM8"}, {})

\* LiveSpec started from that registry.
FullSpec ==
    /\ FullInit
    /\ [][LiveNext]_vars
    /\ WF_vars(ScanCycle({}))
    /\ WF_vars(ScanConnectedSent({}))
    /\ \A port \in ActivePorts : SF_vars(RelayOf(port))
    /\ WF_vars(\E r \in RelaySet : RelayDisconnectedSent(r))

\* FullSpec with an enumeration that never raises.
FullNoFailSpec ==
    /\ FullInit
    /\ [][(LiveNext /\ scanner'.pc # "crashed")]_vars
    /\ WF_vars(ScanCycle({}))
    /\ WF_vars(ScanConnectedSent({}))
    /\ \A port \in ActivePorts : SF_vars(RelayOf(port))
    /\ WF_vars(\E r \in RelaySet : RelayDisconnectedSent(r))

\* The scanner whose opens can fail, its enumeration succeeding.
OpenScannerNext ==
    \/ \E busy \in SUBSET ActivePorts : ScanCycle(busy)
    \/ \E busy \in SUBSET ActivePorts : ScanConnectedSent(busy)

OpenNext == OpenScannerNext \/ RouterRelayNext \/ DeviceNext \/ ClientNext

\* The bridge with silent devices: binding and unbinding only.
OpenSpec == Init /\ [][OpenNext]_vars

\* Lines with white space around them, and lines of white space only.
ReadLines == {<<"H", "I", "\r", "\n">>, <<" ", "H", "\n">>, <<"\r", "\n">>}

\* What a poll can yield when the devices send the lines of ReadLines.
ReadInputsFor(port) ==
    IF port \in available
    THEN {Idle, Failure} \cup {LineRead(l) : l \in ReadLines}
    ELSE {Idle, Failure}

ReadRelayNext ==
    \/ \E r \in RelaySet : \E inp \in ReadInputsFor(r.port) : RelayStart(r, inp)
    \/ \E r \in RelaySet : \E inp \in ReadInputsFor(r.port) : RelayWake(r, inp)
    \/ \E r \in RelaySet : RelayDataSent(r)
    \/ \E r \in RelaySet : RelayDisconnectedSent(r)

\* The scanner, its enumeration and its opens succeeding.
ReadScannerNext == ScanCycle({}) \/ ScanConnectedSent({})

ReadNext == ReadScannerNext \/ ReadRelayNext \/ DeviceNext \/ ClientNext

\* The bridge started with an empty registry, its devices sending the lines
\* of ReadLines.
ReadSpec == LiveInit /\ [][ReadNext]_vars

\* The cleanup of lines 113-118 observed on its own: registries the bridge
\* has built, COM1 always among the bound ports, and for every binding two
\* task frames that have left their loop and run the cleanup one after the
\* other.
UnbindConfigs ==
    (BootConfigs \ {<<>>}) \cup
    {<<Item("COM7", 2, BootHandle("COM7")), Item("COM1", 1, BootHandle("COM1")),
       Item("COM2", 3, BootHandle("COM2"))>>}

UnbindInit ==
    \E boot \in UnbindConfigs, clients \in SUBSET Clients :
        /\ available = OtherPorts
        /\ connected_clients = clients
        /\ players = boot
        /\ assigned_player_nums = {boot[i].player_num : i \in DOMAIN boot}
        /\ is_open = [h \in Handles |-> \E i \in DOMAIN boot : boot[i].serial_conn = h]
        /\ close_calls = [h \in Handles |-> "none"]
        /\ relays = [r \in {Relay(boot[i].port, boot[i].serial_conn,
                                  boot[i].player_num, "sleep") : i \in DOMAIN boot}
                        |-> 2]
        /\ scanner = Scanner("sleep", {}, {}, NoPort)
        /\ sent = NoEnvelope
        /\ routed = NothingRouted
        /\ inbox = [c \in Connections |-> NoMessages]
        /\ written = [p \in Ports |-> [c \in Connections |-> 0]]
        /\ closed = {}
        /\ announced = Announced(boot)

UnbindNext ==
    \/ \E r \in RelaySet : RelayWake(r, Failure)
    \/ \E r \in RelaySet : RelayDisconnectedSent(r)
    \/ ClientNext

UnbindSpec == UnbindInit /\ [][UnbindNext]_vars

\* The message whose copies are observed, told apart by their numbers: it
\* is for all devices.
OrderMessages ==
    { <<Punct("{"), Str("x"), Punct(":"), Num(1), Punct("}")>> }

\* The clients' messages are queued by their connections and handled by
\* their register_client tasks, while the scanner and the relays run.
OrderMessageNext ==
    \/ \E c \in Connections, message \in OrderMessages : ClientSends(c, message)
    \/ \E c \in Connections, failing \in SUBSET CanFail : ClientHandles(c, failing)

OrderNext ==
    \/ RouterScannerNext
    \/ RouterRelayNext
    \/ RouterDeviceNext
    \/ OrderMessageNext

\* Three bindings as in RouterInit, and both clients connected.
OrderInit ==
    InitWith(<<Item("COM7", 2, BootHandle("COM7")), Item("COM1", 1, BootHandle("COM1")),
               Item("COM2", 3, BootHandle("COM2"))>>, {}, Connections)

OrderSpec == OrderInit /\ [][OrderNext]_vars

\* The connections of the clients close before their register_client
\* tasks end, while the scanner and the relays broadcast.
ClosingClientNext ==
    \/ ClientNext
    \/ \E c \in Clients : ClientCloses(c)

ClosingNext ==
    \/ RouterScannerNext
    \/ RelayNext
    \/ RouterDeviceNext
    \/ ClosingClientNext

ClosingSpec == RouterInit /\ [][ClosingNext]_vars

TypeOK ==
    /\ available \subseteq Ports
    /\ connected_clients \subseteq Connections
    /\ closed \subseteq connected_clients
    /\ \A c \in Connections :
          /\ inbox[c].posted \in 0..MaxPosted
          /\ Len(inbox[c].queue) <= inbox[c].posted
          /\ \A p \in Ports : written[p][c] \in 0..inbox[c].posted
    /\ announced.live \subseteq Nat \X Ports
    /\ KeySet(players) \subseteq Ports
    /\ Cardinality(KeySet(players)) = Len(players)
    /\ assigned_player_nums \subseteq Nat
    /\ close_calls \in [Handles -> {"none", "one", "more"}]
    /\ \A h \in Handles \ Referenced(players, relays) :
          ~is_open[h] /\ close_calls[h] = "none"
    /\ \A p \in Ports \ KeySet(players) :
          \E h \in Handles \ Referenced(players, relays) : h[1] = p

(******************************* properties ********************************)

HeldSlots(pl) == {pl[i].player_num : i \in DOMAIN pl}

\* C1: in every reachable state the registry holds at most MAX_PLAYERS
\* bindings, every bound slot is in 1..MAX_PLAYERS and no two bindings that
\* exist at the same time have the same player_num.
C1_SlotExclusivity ==
    /\ Len(players) <= MAX_PLAYERS
    /\ \A i \in DOMAIN players : players[i].player_num \in 1..MAX_PLAYERS
    /\ \A i, j \in DOMAIN players :
          i # j => players[i].player_num # players[j].player_num

\* The registry is full, an active port among the bound ones, while another
\* qualifying device is plugged in and has no binding.
C1_Witness ==
    /\ Len(players) = MAX_PLAYERS
    /\ \E p \in ActivePorts : p \in KeySet(players)
    /\ \E p \in ActivePorts : p \in available /\ p \notin KeySet(players)

\* C2: the slots given to the ports a step binds are the smallest slots no
\* binding held before the step, each port its own one; no port is bound
\* when every slot is held.
C2_LowestFree ==
    [][LET new == KeySet(players') \ KeySet(players)
           free == Slots \ HeldSlots(players)
           got == {Get(players', p).player_num : p \in new}
       IN  /\ got \subseteq free
           /\ Cardinality(got) = Cardinality(new)
           /\ \A s \in got : \A t \in free : t < s => t \in got]_vars

\* No stable port was ever bound; the scanner has just bound a port to slot
\* 1 while another port holds slot 2, so slot 1 had a holder before and was
\* freed by its unbinding.
C2_Witness ==
    /\ scanner.pc = "connected"
    /\ scanner.port \in KeySet(players)
    /\ Get(players, scanner.port).player_num = 1
    /\ \E i \in DOMAIN players :
          players[i].port \in ActivePorts /\ players[i].player_num = 2
    /\ KeySet(players) \subseteq ActivePorts

\* This step handles a client message.
Handled == routed'.n # routed.n

\* The text is a JSON object.
IsObjectText(m) == Len(m) >= 2 /\ m[1] = Punct("{") /\ m[Len(m)] = Punct("}")

\* The text is a JSON object whose member player_id is the number s.
TargetOf(m, s) ==
    /\ IsObjectText(m)
    /\ \E i \in 2..(Len(m) - 2) :
          m[i] = Str("player_id") /\ m[i + 1] = Punct(":") /\ m[i + 2] = Num(s)

\* The text is a JSON object with no member player_id.
Untargeted(m) ==
    /\ IsObjectText(m)
    /\ \A i \in DOMAIN m : m[i] # Str("player_id")

\* The text is no JSON: a bare word, or an object that is not closed.
NotJson(m) ==
    \/ \E i \in DOMAIN m : m[i].k = "word"
    \/ m # <<>> /\ m[1] = Punct("{") /\ m[Len(m)] # Punct("}")

\* C3: handling an object message with player_id = s makes, when slot s is
\* bound to a device with an open handle, exactly one write() call, on that
\* device, with the raw text followed by a newline, and no call on any other
\* device; it makes no call at all when no binding holds slot s.
C3_TargetedRouting ==
    [][Handled =>
        \A s \in Slots : TargetOf(routed'.message, s) =>
            LET holders == {i \in DOMAIN players : players[i].player_num = s}
            IN  /\ holders = {} => routed'.writes = <<>>
                /\ \A i \in holders : is_open[players[i].serial_conn] =>
                      /\ Len(routed'.writes) = 1
                      /\ routed'.writes[1].port = players[i].port
                      /\ routed'.writes[1].data = routed'.message \o <<Newline>>]_vars

\* A message for slot 1 was written to COM1 while two other devices are
\* bound and open.
C3_Witness ==
    /\ TargetOf(routed.message, 1)
    /\ Len(routed.writes) = 1
    /\ routed.writes[1].port = "COM1"
    /\ routed.writes[1].ok
    /\ Len(players) = 3
    /\ \A i \in DOMAIN players : is_open[players[i].serial_conn]

\* C4: handling an object message without player_id makes exactly one
\* write() call with that payload on every binding whose handle is open, and
\* none on any other, whichever of the calls raise.
C4_BroadcastRouting ==
    [][Handled /\ Untargeted(routed'.message) =>
        LET opened == {i \in DOMAIN players : is_open[players[i].serial_conn]}
        IN  /\ Len(routed'.writes) = Cardinality(opened)
            /\ \A i \in opened : \E k \in DOMAIN routed'.writes :
                  /\ routed'.writes[k].port = players[i].port
                  /\ routed'.writes[k].data = routed'.message \o <<Newline>>]_vars

\* A broadcast whose first write() raised and whose two later ones returned.
C4_Witness ==
    /\ Untargeted(routed.message)
    /\ Len(routed.writes) = 3
    /\ ~routed.writes[1].ok
    /\ routed.writes[2].ok
    /\ routed.writes[3].ok

\* C5: handling a message that is no JSON makes no write() call, changes
\* neither the registry nor the client set, and leaves the sender registered.
C5_MalformedInput ==
    [][Handled /\ NotJson(routed'.message) =>
        /\ routed'.writes = <<>>
        /\ UNCHANGED <<players, assigned_player_nums, is_open, connected_clients>>
        /\ routed'.client \in connected_clients']_vars

\* A message that is no JSON was handled while three devices are bound and
\* open, and its sender is still registered.
C5_Witness ==
    /\ NotJson(routed.message)
    /\ routed.message # <<>>
    /\ routed.writes = <<>>
    /\ routed.client \in connected_clients
    /\ Len(players) = 3
    /\ \A i \in DOMAIN players : is_open[players[i].serial_conn]

\* Some slot is held by no binding.
SlotFree == get_available_player_num(assigned_player_nums) # None

\* C6: a qualifying device that is plugged in, has no binding and finds a
\* free slot is eventually bound with a relay task started for it, unless it
\* is unplugged or the slots run out first.
C6_ConnectLiveness ==
    \A p \in ActivePorts :
        (p \in available /\ p \notin KeySet(players) /\ SlotFree)
            ~> \/ p \in KeySet(players) /\ \E r \in RelaySet : r.port = p
               \/ p \notin available
               \/ ~SlotFree

\* C7: the binding of a device that is unplugged is eventually removed,
\* unless the device is plugged in again first.
C7_DisconnectLiveness ==
    \A p \in ActivePorts :
        (p \in KeySet(players) /\ p \notin available)
            ~> (p \notin KeySet(players) \/ p \in available)

\* The relay tasks of port that have yet to run their cleanup.
Polling(port) == {r \in RelaySet : r.port = port /\ r.pc # "disconnected"}

\* C8, as stated: the handle of every binding in the registry is open.
C8_HandleOpen ==
    \A i \in DOMAIN players : is_open[players[i].serial_conn]

\* C8, amended: the handle of a binding is open, or the scanner has called
\* close() on it and a relay task of the device that reads from this very
\* handle has yet to run its cleanup, which removes the binding.
C8_HandleOpenUntilClosed ==
    \A i \in DOMAIN players :
        \/ is_open[players[i].serial_conn]
        \/ /\ close_calls[players[i].serial_conn] # "none"
           /\ \E r \in Polling(players[i].port) :
                 r.pc = "start" \/ r.ser = players[i].serial_conn

\* A binding whose handle the scanner has closed while the device's relay is
\* suspended in a data broadcast.
C8_Witness ==
    \E i \in DOMAIN players :
        /\ ~is_open[players[i].serial_conn]
        /\ \E r \in Polling(players[i].port) : r.pc = "data"

\* C9: whenever a step removes a binding from the registry, exactly one
\* close() call has been made on the binding's handle: not none and not
\* more than one.
C9_ClosedExactlyOnce ==
    [][\A i \in DOMAIN players :
          players[i].port \notin KeySet(players') =>
              close_calls[players[i].serial_conn] = "one"]_vars

\* The relay tasks of port in the bag, copies counted.
RelaysOn(bag, port) ==
    BagCardinality([r \in {x \in BagToSet(bag) : x.port = port} |-> bag[r]])

\* The relay tasks of port that have yet to run their cleanup, copies counted.
PollingOn(port) == BagCardinality([r \in Polling(port) |-> relays[r]])

\* The tasks of port that were created and have not run yet.
Created(bag, port) == CopiesIn(Relay(port, NoHandle, 0, "start"), bag)

\* C10, as stated: after every step each bound device has exactly one relay
\* task, and a step creates a relay task for a device only when no relay
\* task of that device exists any more, its last broadcast included.
C10_OneRelay ==
    [][/\ \A p \in KeySet(players') : RelaysOn(relays', p) = 1
       /\ \A p \in Ports :
             Created(relays', p) > Created(relays, p) => RelaysOn(relays, p) = 0]_vars

\* C10, amended: no device has more than one relay task that has yet to run
\* its cleanup; a bound device has exactly one, or none while the scanner is
\* suspended in the "connected" broadcast for it; a device that is not bound
\* has none.  A relay task that has removed its binding and is suspended in
\* its "disconnected" broadcast is not counted.
C10_OnePollingRelay ==
    /\ \A p \in Ports : PollingOn(p) <= 1
    /\ \A p \in KeySet(players) :
          \/ PollingOn(p) = 1
          \/ scanner.pc = "connected" /\ scanner.port = p
    /\ \A p \in Ports \ KeySet(players) : PollingOn(p) = 0

\* A device is bound again and its new relay task polls while the relay
\* task of its previous binding is still suspended in its last broadcast.
C10_Witness ==
    \E p \in ActivePorts :
        /\ p \in KeySet(players)
        /\ \E r \in Polling(p) : r.pc = "sleep"
        /\ \E r \in Lingering : r.port = p

\* The relay tasks of port in the bag that have yet to run their cleanup,
\* copies counted.
PollingIn(bag, port) ==
    BagCardinality([r \in {x \in BagToSet(bag) :
                              x.port = port /\ x.pc # "disconnected"} |-> bag[r]])

\* C11: a step in which a task of port p runs its cleanup removes, when p is
\* bound, the binding of p and that binding's number and nothing else from
\* the registry; when p is not bound any more it changes neither players nor
\* assigned_player_nums, sends no envelope and leaves no task suspended in
\* a broadcast.
C11_UnbindIdempotence ==
    [][\A p \in Ports : PollingIn(relays', p) < PollingIn(relays, p) =>
          IF p \in KeySet(players)
          THEN /\ players' = DictDel(players, p)
               /\ assigned_player_nums' =
                     assigned_player_nums \ {Get(players, p).player_num}
          ELSE /\ UNCHANGED <<players, assigned_player_nums, sent, announced>>
               /\ RelaysOn(relays', p) < RelaysOn(relays, p)]_vars

\* Both cleanups of COM1 have run with a client connected: the envelope
\* sent last is the one of the first, the second left no task behind, and
\* the other bindings and their numbers are still there.
C11_Witness ==
    /\ "COM1" \notin KeySet(players)
    /\ RelaysOn(relays, "COM1") = 0
    /\ connected_clients # {}
    /\ sent = [msg |-> StatusEnvelope("disconnected", 1, "COM1"), to |-> Clients]
    /\ Len(players) = 2
    /\ assigned_player_nums = HeldSlots(players)

\* C12: an enumeration that raises is confined to its cycle: the scanner
\* task never ends, so that it runs another cycle after the next interval.
C12_EnumerationConfined == scanner.pc # "crashed"

\* The text d is the text l without the white space at its two ends, and
\* is not empty.
IsTrimOf(d, l) ==
    \E i, j \in 1..Len(l) :
        /\ i <= j
        /\ d = SubSeq(l, i, j)
        /\ ~IsSpace(l[i]) /\ ~IsSpace(l[j])
        /\ \A k \in (1..(i - 1)) \cup ((j + 1)..Len(l)) : IsSpace(l[k])

\* The relay tasks of port in the bag that are suspended in a data
\* broadcast, copies counted.
DataIn(bag, port) ==
    BagCardinality([r \in {x \in BagToSet(bag) : x.port = port /\ x.pc = "data"}
                      |-> bag[r]])

\* C13, with a client connected: a step in which a relay of port p starts a
\* data broadcast has p bound, and the envelope goes to every client with
\* the number of p's binding and a line of the device without its
\* surrounding white space; a relay that reads a line with something else
\* than white space from an open handle starts such a broadcast with that
\* line, one that reads white space only sends nothing; and no data
\* envelope is sent in any other step.
C13_DataEnvelopes ==
    [][/\ \A p \in Ports : DataIn(relays', p) > DataIn(relays, p) =>
             /\ p \in KeySet(players)
             /\ sent'.to = connected_clients
             /\ sent'.msg.status = "data"
             /\ sent'.msg.player = Get(players, p).player_num
             /\ \E l \in ReadLines : IsTrimOf(sent'.msg.data, l)
       /\ \A r \in RelaySet, l \in ReadLines :
             (/\ RelayStart(r, LineRead(l)) \/ RelayWake(r, LineRead(l))
              /\ r.port \in KeySet(players)
              /\ is_open[Get(players, r.port).serial_conn]
              /\ connected_clients # {}) =>
                 IF \E k \in DOMAIN l : ~IsSpace(l[k])
                 THEN /\ DataIn(relays', r.port) > DataIn(relays, r.port)
                      /\ IsTrimOf(sent'.msg.data, l)
                 ELSE /\ sent' = sent
                      /\ DataIn(relays', r.port) = DataIn(relays, r.port)
       /\ (sent' # sent /\ sent'.msg.status = "data") =>
             \E p \in Ports : DataIn(relays', p) > DataIn(relays, p)]_vars

\* The relay of a device bound to slot 2 while slot 1 is free is suspended
\* in the broadcast of the line " H\n", sent as "H" for player 2.
C13_Witness ==
    /\ \E r \in RelaySet : r.pc = "data" /\ r.player_num = 2
    /\ sent = [msg |-> DataEnvelope(2, <<"H">>), to |-> Clients]
    /\ 1 \notin assigned_player_nums

\* The relay tasks of port in the bag that are suspended in their
\* "disconnected" broadcast, copies counted.
LingerIn(bag, port) ==
    BagCardinality([r \in {x \in BagToSet(bag) :
                              x.port = port /\ x.pc = "disconnected"} |-> bag[r]])

\* close() is called on the Serial object h in this step.
Closes(h) == close_calls'[h] # close_calls[h] /\ close_calls'[h] # "none"

\* The set esp_ports of the cycle the scanner is in or starts next.
CycleEspPorts ==
    IF scanner.pc = "connected" THEN scanner.esp_ports ELSE esp_ports_of(available)

\* C14: a step in which close() is called on a handle is a step of the
\* scanner's cycle; the handle is the one of a binding whose port is not in
\* the cycle's esp_ports; the step removes no binding, frees no number and
\* starts no "disconnected" broadcast.  A step that removes the binding of a
\* port, frees a number or starts a "disconnected" broadcast is a step in
\* which a relay of that port runs its cleanup, and calls no close().
C14_DisconnectStep ==
    [][/\ close_calls' # close_calls =>
             \A h \in Handles : Closes(h) =>
                /\ \E i \in DOMAIN players :
                      /\ players[i].serial_conn = h
                      /\ players[i].port \notin CycleEspPorts
                /\ \A i \in DOMAIN players : \E j \in DOMAIN players' :
                      players'[j] = players[i]
                /\ assigned_player_nums \subseteq assigned_player_nums'
                /\ \A p \in Ports : LingerIn(relays', p) <= LingerIn(relays, p)
                /\ sent'.msg.status # "disconnected" \/ sent' = sent
       /\ relays' # relays =>
             \A p \in Ports :
                (\/ p \in KeySet(players) \ KeySet(players')
                 \/ LingerIn(relays', p) > LingerIn(relays, p)) =>
                    /\ PollingIn(relays', p) < PollingIn(relays, p)
                    /\ scanner' = scanner
                    /\ \A h \in Handles : ~Closes(h)
       /\ KeySet(players) \ KeySet(players') # {} => relays' # relays
       /\ assigned_player_nums \ assigned_player_nums' # {} =>
             \E p \in Ports : PollingIn(relays', p) < PollingIn(relays, p)]_vars

\* The scanner has just closed the handle of a bound port with a client
\* connected: the binding and its number are still in the registry and the
\* envelope sent last is still the "connected" one of that binding.
C14_Witness ==
    \E i \in DOMAIN players :
        /\ ~is_open[players[i].serial_conn]
        /\ close_calls[players[i].serial_conn] = "one"
        /\ players[i].player_num \in assigned_player_nums
        /\ connected_clients # {}
        /\ sent.msg = StatusEnvelope("connected", players[i].player_num,
                                     players[i].port)

\* The ports the scanner's for loop has still to visit in the cycle it is
\* in or starts next.
CycleTodo ==
    IF scanner.pc = "connected" THEN scanner.todo ELSE esp_ports_of(available)

\* C15: in a step of the scanner's cycle in which serial.Serial() raises on
\* the ports of busy, every unbound port of the cycle that is in busy stays
\* unbound, gets no relay task and no "connected" envelope; the numbers
\* that become assigned are those of the bindings the step makes, so none
\* is consumed by a failure; and every other unbound port of the cycle is
\* bound in the step, or is still to be visited while the scanner is
\* suspended, or finds no number free: the failure does not end the cycle,
\* and a later cycle in which the open succeeds binds the port.
C15_OpenFailure ==
    [][scanner.pc # "crashed" /\ <<players, scanner, relays>>' # <<players, scanner, relays>> =>
        \A busy \in SUBSET ActivePorts :
          (ScanCycle(busy) \/ ScanConnectedSent(busy)) =>
             LET unbound == CycleTodo \ KeySet(players)
                 new == KeySet(players') \ KeySet(players)
             IN  /\ \A p \in unbound \cap busy :
                       /\ p \notin KeySet(players')
                       /\ RelaysOn(relays', p) <= RelaysOn(relays, p)
                       /\ sent' = sent \/ sent'.msg.port # p
                 /\ assigned_player_nums' = assigned_player_nums \cup
                       {Get(players', q).player_num : q \in new}
                 /\ \A q \in unbound \ busy :
                       \/ q \in KeySet(players')
                       \/ scanner'.pc = "connected" /\ q \in scanner'.todo
                       \/ get_available_player_num(assigned_player_nums') = None]_vars

\* The scanner is suspended in the "connected" broadcast for COM8, bound to
\* slot 1 as the only binding, and COM7 is a port of the same cycle that
\* the loop has visited already and that is not bound: its open was
\* attempted with slot 1 free and failed, and the cycle went on to COM8.
C15_Witness ==
    /\ scanner.pc = "connected"
    /\ scanner.port = "COM8"
    /\ "COM7" \in scanner.esp_ports \ scanner.todo
    /\ "COM7" \in available
    /\ players = <<Item("COM8", 1, BootHandle("COM8"))>>
    /\ assigned_player_nums = {1}
    /\ relays = EmptyBag
    /\ sent = [msg |-> StatusEnvelope("connected", 1, "COM8"), to |-> Clients]

\* C16: while every slot is held no step binds a port, assigns a number or,
\* the scanner sleeping, creates a relay task; and a qualifying device that
\* is plugged in and not bound while every slot is held is eventually bound
\* or unplugged, unless no slot stays free: the slots are never freed, or
\* every slot that is freed is taken again.
C16_ExhaustionTransient ==
    /\ [][~SlotFree =>
             /\ KeySet(players') \subseteq KeySet(players)
             /\ assigned_player_nums' \subseteq assigned_player_nums
             /\ scanner.pc = "sleep" =>
                   \A p \in Ports : Created(relays', p) <= Created(relays, p)]_vars
    /\ \/ []<>(~SlotFree)
       \/ \A p \in ActivePorts :
             (p \in available /\ p \notin KeySet(players) /\ ~SlotFree)
                 ~> (p \in KeySet(players) \/ p \notin available)

\* C17: the messages of one client are written to one device in the order
\* the client sent them: as long as the client stays connected, the number
\* in its stream of the message written to a device last never decreases,
\* whatever the other clients' handlers, the scanner and the relays do.
C17_OrderPreserved ==
    [][\A p \in Ports, c \in Connections :
          (c \in connected_clients /\ c \in connected_clients')
              => /\ written'[p][c] >= written[p][c]
                 /\ written'[p][c] # written[p][c]
                       => \A i \in DOMAIN inbox'[c].queue :
                             NumberOf(inbox'[c], i) > written'[p][c]]_vars

\* Both messages of "ws1" were written to COM7, the second while "ws2",
\* whose first message was written to COM7 too, has still one queued.
C17_Witness ==
    /\ written["COM7"]["ws1"] = 2
    /\ written["COM7"]["ws2"] = 1
    /\ inbox["ws2"].queue # <<>>
    /\ routed.client = "ws1"

\* A step in which an envelope is given to broadcast().
Broadcasts == sent' # sent \/ announced' # announced

C19_RegistryConsistent ==
    /\ assigned_player_nums = HeldSlots(players)
    /\ \A i, j \in DOMAIN players :
          players[i].player_num = players[j].player_num => i = j

\* The scanner is suspended in the "connected" broadcast of a binding it
\* has just made while a relay is suspended in the "disconnected" broadcast
\* of the binding it has just removed, and another binding is there.
C19_Witness ==
    /\ scanner.pc = "connected"
    /\ scanner.port \in KeySet(players)
    /\ Lingering \cap DOMAIN relays # {}
    /\ Len(players) >= 2
    /\ assigned_player_nums = HeldSlots(players)

\* The <<player_num, port>> of the bindings in the registry.
Bindings(pl) == {<<pl[i].player_num, pl[i].port>> : i \in DOMAIN pl}

\* C20: of the envelopes given to broadcast(), none comes out of turn: a
\* "connected" one for a number only while no binding announced with that
\* number is still announced, a "data" or "disconnected" one only for a
\* binding announced and not yet withdrawn; and the bindings announced and
\* not withdrawn are exactly those in the registry, so that every binding
\* has had its "connected" envelope and a "disconnected" one is given only
\* with the binding removed.
C20_LifecycleOrder ==
    /\ announced.odd = {}
    /\ announced.live = Bindings(players)

\* Number 1 was given to COM8 and its "connected" envelope sent while the
\* relay of COM7, which held number 1 before, is still suspended in its
\* "disconnected" broadcast.
C20_Witness ==
    /\ BagIn(Relay("COM7", NoHandle, 0, "disconnected"), relays)
    /\ announced.live = {<<1, "COM8">>}
    /\ sent = [msg |-> StatusEnvelope("connected", 1, "COM8"), to |-> Clients]
    /\ scanner.pc = "connected"

====
